---- MODULE Spec2Model ----
(***************************************************************************)
(* skimage.measure.blur_effect (src/skimage/measure/_blur_effect.py) as a  *)
(* state machine: one call of blur_effect, stepped through its statements  *)
(* (move the channel axis, reduce to gray, prepare, one loop iteration per *)
(* axis, return), followed by a caller that repeats the call on the        *)
(* externally pre-reduced image.                                           *)
(*                                                                         *)
(* Arithmetic is exact.  An array is a record                              *)
(*     [shape, dtype, den, at]                                             *)
(* whose element at index p has the value at[p] / den: all elements of one *)
(* array share the denominator den, so the divisions of the filters (the   *)
(* mean of the box filter, the /4 of the Sobel smoothing weights, the      *)
(* grayscale weights) are carried in den and never round.  A scalar is a   *)
(* record [num, den].  Rounding of IEEE doubles inside the filters is not  *)
(* part of the model.  Indices are tuples of 0-based positions; numpy axis *)
(* a is position a + 1 of a tuple.                                         *)
(***************************************************************************)
EXTENDS Integers, Sequences, FiniteSets, TLC

VARIABLES args, image, n_axes, shape, slices, B, ax, warned, regions,
          calls, pc, err, result, callNo, prev

vars == <<args, image, n_axes, shape, slices, B, ax, warned, regions,
          calls, pc, err, result, callNo, prev>>

(***************************************************************************)
(* Bounds of the explored inputs.                                          *)
(***************************************************************************)
\* pixel levels of a generated image are 0..MaxVal
MaxVal == 1
\* h_size ranges over 1..MaxH in the small-image specification
MaxH == 3
\* a float input holds multiples of 1/FloatDen
FloatDen == 2
\* side of the all-zero square image
ZeroSide == 20
\* the step-edge images are EdgeMin..EdgeMax pixels on each side
EdgeMax == 31

(***************************************************************************)
(* Constants of the program and its collaborators.                         *)
(***************************************************************************)
\* default h_size
DefaultHSize == 11
\* smallest side of the step-edge scenario
EdgeMin == 30
\* largest value of the uint8 dtype, the divisor of img_as_float
UInt8Max == 255
\* rgb2gray: Y = 0.2125 R + 0.7154 G + 0.0721 B, in units of 1/GrayDen
GrayR == 2125
GrayG == 7154
GrayB == 721
GrayDen == 10000
\* reach of the 3-tap Sobel kernels on either side of a pixel
SobelRadius == 1

(***************************************************************************)
(* Integers and exact scalars.                                             *)
(***************************************************************************)
Abs(x) == IF x < 0 THEN -x ELSE x

RECURSIVE GCD(_, _)
GCD(a, b) == IF b = 0 THEN a ELSE GCD(b, a % b)

LCM(a, b) == (a \div GCD(a, b)) * b

\* the scalar n/d in lowest terms, d > 0
Rat(n, d) ==
    LET g == GCD(Abs(n), d)
    IN  [num |-> n \div g, den |-> d \div g]

RatSub(x, y) ==
    LET d == LCM(x.den, y.den)
    IN  Rat(x.num * (d \div x.den) - y.num * (d \div y.den), d)

RatAbs(x) == [num |-> Abs(x.num), den |-> x.den]

\* x / y for y # 0
RatDiv(x, y) ==
    LET g1 == GCD(Abs(x.num), Abs(y.num))
        g2 == GCD(x.den, y.den)
        n  == (x.num \div g1) * (y.den \div g2)
        d  == (x.den \div g2) * (Abs(y.num) \div g1)
    IN  Rat(IF y.num < 0 THEN -n ELSE n, d)

\* a/b < c/d for a, c >= 0 and b, d > 0, by continued fractions (no products)
RECURSIVE FracLess(_, _, _, _)
FracLess(a, b, c, d) ==
    LET q1 == a \div b
        q2 == c \div d
        r1 == a % b
        r2 == c % d
    IN  IF q1 # q2 THEN q1 < q2
        ELSE IF r2 = 0 THEN FALSE
        ELSE IF r1 = 0 THEN TRUE
        ELSE FracLess(d, r2, b, r1)

\* x < y for scalars of any sign
RatLess(x, y) ==
    IF x.num < 0
    THEN IF y.num < 0 THEN FracLess(-y.num, y.den, -x.num, x.den) ELSE TRUE
    ELSE IF y.num < 0 THEN FALSE ELSE FracLess(x.num, x.den, y.num, y.den)

RatLeq(x, y) == ~RatLess(y, x)

Zero == [num |-> 0, den |-> 1]
One == [num |-> 1, den |-> 1]

(***************************************************************************)
(* Entries of the result list B: NaN, or a defined ratio.                  *)
(***************************************************************************)
NaN == [nan |-> TRUE, num |-> 0, den |-> 1]
Num(x) == [nan |-> FALSE, num |-> x.num, den |-> x.den]

(***************************************************************************)
(* Arrays.                                                                 *)
(***************************************************************************)
RECURSIVE MaxSide(_, _)
\* the longest of the first k axes
MaxSide(shp, k) ==
    IF k = 0 THEN 0
    ELSE LET m == MaxSide(shp, k - 1) IN IF shp[k] > m THEN shp[k] ELSE m

\* the index tuples of an array of shape shp
AllIndices(shp) ==
    {p \in [1..Len(shp) -> 0..(MaxSide(shp, Len(shp)) - 1)] :
        \A k \in 1..Len(shp) : p[k] < shp[k]}

ndim(a) == Len(a.shape)

RECURSIVE Pow(_, _)
Pow(b, e) == IF e = 0 THEN 1 ELSE b * Pow(b, e - 1)

\* scipy.ndimage boundary mode 'reflect' (d c b a | a b c d | d c b a): the
\* position inside 0..n-1 that position i, inside or outside, reads
reflect(i, n) ==
    LET m == i % (2 * n)
    IN  IF m < n THEN m ELSE 2 * n - 1 - m

\* the element of array a at p displaced by d along tuple position k
Shifted(a, p, k, d) == a.at[[p EXCEPT ![k] = reflect(p[k] + d, a.shape[k])]]

\* numpy.core.multiarray.normalize_axis_index: is the axis inside -nd..nd-1
AxisInRange(axis, nd) == -nd <= axis /\ axis < nd
normalize_axis_index(axis, nd) == IF axis < 0 THEN axis + nd ELSE axis

\* np.moveaxis(a, source, destination): the other axes keep their order and
\* the source axis is inserted at the destination
np_moveaxis(a, source, destination) ==
    LET nd    == ndim(a)
        s     == normalize_axis_index(source, nd) + 1
        d     == normalize_axis_index(destination, nd) + 1
        \* order[j]: the old axis that becomes new axis j
        order == [j \in 1..nd |->
                    IF j = d THEN s
                    ELSE LET r == IF j < d THEN j ELSE j - 1   \* rank among the others
                         IN  IF r < s THEN r ELSE r + 1]
        shp   == [j \in 1..nd |-> a.shape[order[j]]]
        back  == [k \in 1..nd |-> CHOOSE j \in 1..nd : order[j] = k]
    IN  [shape |-> shp, dtype |-> a.dtype, den |-> a.den,
         at |-> [q \in AllIndices(shp) |-> a.at[[k \in 1..nd |-> q[back[k]]]]]]

\* skimage.util.img_as_float: an unsigned integer image is divided by the
\* largest value of its dtype, a float image is returned as it is
img_as_float(a) ==
    IF a.dtype = "uint8"
    THEN [shape |-> a.shape, dtype |-> "float", den |-> a.den * UInt8Max, at |-> a.at]
    ELSE a

\* skimage.color.rgb2gray on a channels-last array whose last axis has length 3
rgb2gray(a) ==
    LET f   == img_as_float(a)
        shp == SubSeq(f.shape, 1, Len(f.shape) - 1)
    IN  [shape |-> shp, dtype |-> "float", den |-> f.den * GrayDen,
         at |-> [p \in AllIndices(shp) |->
                   GrayR * f.at[Append(p, 0)] + GrayG * f.at[Append(p, 1)]
                   + GrayB * f.at[Append(p, 2)]]]

RECURSIVE WindowSum(_, _, _, _, _)
\* the sum of the n elements of a from p displaced by d, d+1, ... along k
WindowSum(a, p, k, d, n) ==
    IF n = 0 THEN 0
    ELSE Shifted(a, p, k, d) + WindowSum(a, p, k, d + 1, n - 1)

\* scipy.ndimage.uniform_filter1d(a, size, axis): the mean of the window of
\* `size` elements that starts size // 2 before each element, mode 'reflect'
uniform_filter1d(a, size, axis) ==
    [shape |-> a.shape, dtype |-> a.dtype, den |-> a.den * size,
     at |-> [p \in AllIndices(a.shape) |->
               WindowSum(a, p, axis + 1, -(size \div 2), size)]]

RECURSIVE SobelAt(_, _, _, _)
\* the Sobel response at p with the kernels of tuple positions k.. still to
\* apply: [1, 0, -1] (convolved) along the edge axis, [1, 2, 1] along the
\* others, each read in mode 'reflect'
SobelAt(a, p, edge, k) ==
    IF k > ndim(a) THEN a.at[p]
    ELSE IF k = edge
    THEN SobelAt(a, [p EXCEPT ![k] = reflect(p[k] + 1, a.shape[k])], edge, k + 1)
         - SobelAt(a, [p EXCEPT ![k] = reflect(p[k] - 1, a.shape[k])], edge, k + 1)
    ELSE SobelAt(a, [p EXCEPT ![k] = reflect(p[k] - 1, a.shape[k])], edge, k + 1)
         + 2 * SobelAt(a, p, edge, k + 1)
         + SobelAt(a, [p EXCEPT ![k] = reflect(p[k] + 1, a.shape[k])], edge, k + 1)

\* skimage.filters.sobel(a, axis=axis): smoothing weights [1, 2, 1] / 4
sobel(a, axis) ==
    [shape |-> a.shape, dtype |-> a.dtype, den |-> a.den * Pow(4, ndim(a) - 1),
     at |-> [p \in AllIndices(a.shape) |-> SobelAt(a, p, axis + 1, 1)]]

np_abs(a) == [a EXCEPT !.at = [p \in AllIndices(a.shape) |-> Abs(a.at[p])]]

\* a - b, element by element, over the common denominator
np_subtract(a, b) ==
    LET d == LCM(a.den, b.den)
    IN  [shape |-> a.shape, dtype |-> a.dtype, den |-> d,
         at |-> [p \in AllIndices(a.shape) |->
                   a.at[p] * (d \div a.den) - b.at[p] * (d \div b.den)]]

\* np.maximum(0, a)
np_maximum0(a) ==
    [a EXCEPT !.at = [p \in AllIndices(a.shape) |-> IF a.at[p] < 0 THEN 0 ELSE a.at[p]]]

\* slice(start, stop).indices(n) for start >= 0: the positions start..stop-1
\* clipped to the axis, a negative stop counted from the end
SliceRange(sl, n) ==
    LET stop == IF sl.stop < 0 THEN (IF sl.stop + n < 0 THEN 0 ELSE sl.stop + n)
                ELSE IF sl.stop > n THEN n ELSE sl.stop
        start == IF sl.start > n THEN n ELSE sl.start
    IN  start..(stop - 1)

RECURSIVE Crop(_, _, _)
\* the index tuples a[sls] selects over the first k axes
Crop(shp, sls, k) ==
    IF k = 0 THEN {<<>>}
    ELSE {Append(p, i) : p \in Crop(shp, sls, k - 1), i \in SliceRange(sls[k], shp[k])}

\* the elements of a that a[sls] holds
Selected(a, sls) == Crop(a.shape, sls, Len(a.shape))

RECURSIVE SumBox(_, _, _, _)
RECURSIVE SumRange(_, _, _, _, _, _)
\* the sum of the elements of a whose index extends the prefix p by positions
\* inside the slices of axes k, k+1, ...
SumBox(a, sls, p, k) ==
    IF k > ndim(a) THEN a.at[p]
    ELSE LET r == SliceRange(sls[k], a.shape[k])
         IN  IF r = {} THEN 0
             ELSE SumRange(a, sls, p, k, sls[k].start, CHOOSE m \in r : \A j \in r : j <= m)

SumRange(a, sls, p, k, i, hi) ==
    IF i > hi THEN 0
    ELSE SumBox(a, sls, Append(p, i), k + 1) + SumRange(a, sls, p, k, i + 1, hi)

\* np.sum(a[sls])
np_sum(a, sls) == Rat(SumBox(a, sls, <<>>, 1), a.den)

(***************************************************************************)
(* blur_effect, statement by statement.                                    *)
(***************************************************************************)
\* the channel axis moved to the front instead of the end
channels_first(img, channel_axis) == np_moveaxis(img, channel_axis, 0)

\* line 76: np.moveaxis(image, channel_axis, -1)
channels_last(img, channel_axis) == np_moveaxis(img, channel_axis, -1)

\* one axis short
n_axes_short(img) == ndim(img) - 1

\* line 84: n_axes = image.ndim
n_axes_of(img) == ndim(img)

\* a crop of one element at either end
slices_symmetric(shp) == [k \in 1..Len(shp) |-> [start |-> 1, stop |-> shp[k] - 1]]

\* a crop that keeps the last element
slices_to_end(shp) == [k \in 1..Len(shp) |-> [start |-> 2, stop |-> shp[k]]]

\* line 91: slices = tuple([slice(2, s - 1) for s in shape])
slices_of(shp) == [k \in 1..Len(shp) |-> [start |-> 2, stop |-> shp[k] - 1]]

\* the image always smoothed along axis 0
filt_im_axis0(img, h_size, axis) == uniform_filter1d(img, h_size, 0)

\* line 93
filt_im(img, h_size, axis) == uniform_filter1d(img, h_size, axis)

\* line 94
im_sharp(img, axis) == np_abs(sobel(img, axis))

\* line 95
im_blur(img, h_size, axis) == np_abs(sobel(filt_im(img, h_size, axis), axis))

\* the difference left unclipped
T_unclipped(img, h_size, axis) ==
    np_subtract(im_sharp(img, axis), im_blur(img, h_size, axis))

\* line 96: T = np.maximum(0, im_sharp - im_blur)
T(img, h_size, axis) ==
    np_maximum0(np_subtract(im_sharp(img, axis), im_blur(img, h_size, axis)))

\* the image itself summed in place of its edges
M1_of_image(img, sls, axis) == np_sum(np_abs(img), sls)

\* line 97: M1 = np.sum(im_sharp[slices])
M1(img, sls, axis) == np_sum(im_sharp(img, axis), sls)

\* line 107: M2 = np.sum(T[slices])
M2(img, h_size, sls, axis) == np_sum(T(img, h_size, axis), sls)

\* line 108: np.abs(M1 - M2) / M1
Ratio(m1, m2) == RatDiv(RatAbs(RatSub(m1, m2)), m1)

\* lines 93-108: what one iteration of the loop appends to B
AxisEntry(img, h_size, sls, axis) ==
    LET m1 == M1(img, sls, axis)
    IN  IF m1.num = 0 THEN NaN
        ELSE Num(Ratio(m1, M2(img, h_size, sls, axis)))

RECURSIVE MaxOf(_, _)
\* the largest of the first k entries of a list of defined ratios
MaxOf(list, k) ==
    IF k = 1 THEN list[1]
    ELSE LET m == MaxOf(list, k - 1)
         IN  IF RatLess(m, list[k]) THEN list[k] ELSE m

\* np.max of a non-empty list: NaN as soon as one entry is NaN
np_max(list) ==
    IF \E i \in 1..Len(list) : list[i].nan THEN NaN
    ELSE MaxOf(list, Len(list))

\* np.nanmax in place of np.max: NaN entries skipped
apply_reduce_nanmax(reduce_func, list) ==
    IF reduce_func = "None" THEN [kind |-> "list", list |-> list, value |-> NaN]
    ELSE LET kept == SelectSeq(list, LAMBDA e : ~e.nan)
         IN  [kind |-> "scalar", list |-> <<>>,
              value |-> IF kept = <<>> THEN NaN ELSE MaxOf(kept, Len(kept))]

\* line 110: B if reduce_func is None else reduce_func(B)
apply_reduce(reduce_func, list) ==
    IF reduce_func = "None" THEN [kind |-> "list", list |-> list, value |-> NaN]
    ELSE [kind |-> "scalar", list |-> <<>>, value |-> np_max(list)]

NoResult == [kind |-> "none", list |-> <<>>, value |-> NaN]

(***************************************************************************)
(* Inputs.                                                                 *)
(***************************************************************************)
NoAxis == [kind |-> "None", val |-> 0]
IntAxis(k) == [kind |-> "int", val |-> k]
\* a channel_axis that is no integer, such as 1.5
FloatAxis == [kind |-> "float", val |-> 0]

\* a two-level image: foreground fg on the pixels lit, background bg elsewhere
TwoLevel(shp, dtype, lit, bg, fg) ==
    [shape |-> shp, dtype |-> dtype, den |-> IF dtype = "uint8" THEN 1 ELSE FloatDen,
     at |-> [p \in AllIndices(shp) |-> IF p \in lit THEN fg ELSE bg]]

\* flat images, and flat images with one foreground pixel
SpotImages(shp) ==
    {TwoLevel(shp, dtype, lit, bg, fg) :
        dtype \in {"uint8", "float"},
        lit \in {{}} \cup {{p} : p \in AllIndices(shp)},
        bg \in 0..MaxVal, fg \in 0..MaxVal}

SmallShapes == {<<6>>, <<4, 4>>, <<3, 5>>, <<4, 4, 4>>, <<4, 3, 5>>}

\* a sharp vertical edge: every row the same, left half 0.0, right half 1.0
StepEdge(rows, cols) ==
    [shape |-> <<rows, cols>>, dtype |-> "float", den |-> 1,
     at |-> [p \in AllIndices(<<rows, cols>>) |-> IF p[2] >= cols \div 2 THEN 1 ELSE 0]]

\* the same edge with three equal colour channels in the last axis
StepEdgeRGB(rows, cols) ==
    [shape |-> <<rows, cols, 3>>, dtype |-> "float", den |-> 1,
     at |-> [p \in AllIndices(<<rows, cols, 3>>) |-> IF p[2] >= cols \div 2 THEN 1 ELSE 0]]

ReduceFuncs == {"np.max", "None"}

\* the state on entry to blur_effect(img, h_size, channel_axis, reduce_func)
Entry(img, h_size, channel_axis, reduce_func) ==
    /\ args = [image |-> img, h_size |-> h_size, channel_axis |-> channel_axis,
               reduce_func |-> reduce_func]
    /\ image = img
    /\ n_axes = 0
    /\ shape = <<>>
    /\ slices = <<>>
    /\ B = <<>>
    /\ ax = 0
    /\ warned = <<>>
    /\ regions = <<>>
    /\ calls = {}
    /\ pc = "start"
    /\ err = "none"
    /\ result = NoResult
    /\ callNo = 1
    /\ prev = [B |-> <<>>, warned |-> <<>>, result |-> NoResult, err |-> "none",
               pc |-> "none", channel_axis |-> NoAxis]

ChannelAxes == {NoAxis, FloatAxis} \cup {IntAxis(k) : k \in {-1, 0, 1, 3}}

SmallImages ==
    UNION {SpotImages(shp) : shp \in SmallShapes}
    \cup {StepEdge(rows, cols) : rows \in 4..5, cols \in 4..6}

\* a 2-D all-zero image
ZeroImage == TwoLevel(<<ZeroSide, ZeroSide>>, "float", {}, 0, 0)

Init ==
    \/ \E img \in SmallImages, h_size \in 1..MaxH, reduce_func \in ReduceFuncs,
          channel_axis \in ChannelAxes :
           Entry(img, h_size, channel_axis, reduce_func)
    \/ \E reduce_func \in ReduceFuncs :
           Entry(ZeroImage, DefaultHSize, NoAxis, reduce_func)

InitEdge ==
    \E rows \in EdgeMin..EdgeMax, cols \in EdgeMin..EdgeMax, reduce_func \in ReduceFuncs :
        \/ Entry(StepEdge(rows, cols), DefaultHSize, NoAxis, reduce_func)
        \/ \E k \in {2, -1, 3} :
              Entry(StepEdgeRGB(rows, cols), DefaultHSize, IntAxis(k), reduce_func)

(***************************************************************************)
(* The steps of one call.                                                  *)
(***************************************************************************)
\* the refused axis reported with print and not raised again
MoveAxis_swallowed ==
    /\ pc = "start"
    /\ args.channel_axis.kind # "None"
    /\ pc' = "moved"
    /\ image' = IF args.channel_axis.kind = "int"
                    /\ AxisInRange(args.channel_axis.val, ndim(image))
                 THEN channels_last(image, args.channel_axis.val)
                 ELSE image
    /\ calls' = calls \cup {"np.moveaxis"}
    /\ UNCHANGED <<args, n_axes, shape, slices, B, ax, warned, regions, err, result,
                   callNo, prev>>

\* lines 73-82: move the channel axis last; an axis that np.moveaxis refuses is
\* reported with print and raised again
MoveAxis ==
    /\ pc = "start"
    /\ args.channel_axis.kind # "None"
    /\ IF args.channel_axis.kind # "int"
       THEN /\ pc' = "raised"
            /\ err' = "TypeError"
            /\ UNCHANGED image
       ELSE IF ~AxisInRange(args.channel_axis.val, ndim(image))
       THEN /\ pc' = "raised"
            /\ err' = "AxisError"
            /\ UNCHANGED image
       ELSE /\ pc' = "moved"
            /\ image' = channels_last(image, args.channel_axis.val)
            /\ UNCHANGED err
    /\ calls' = calls \cup {"np.moveaxis"}
    /\ UNCHANGED <<args, n_axes, shape, slices, B, ax, warned, regions, result,
                   callNo, prev>>

\* line 83: image = rgb2gray(image); rgb2gray refuses a last axis that does not
\* hold three channels
Rgb2Gray ==
    /\ pc = "moved"
    /\ IF image.shape[Len(image.shape)] = 3
       THEN /\ pc' = "gray"
            /\ image' = rgb2gray(image)
            /\ UNCHANGED err
       ELSE /\ pc' = "raised"
            /\ err' = "ValueError"
            /\ UNCHANGED image
    /\ calls' = calls \cup {"rgb2gray"}
    /\ UNCHANGED <<args, n_axes, shape, slices, B, ax, warned, regions, result,
                   callNo, prev>>

\* lines 84-91: n_axes, img_as_float, shape, B = [], slices
Prepare ==
    /\ \/ pc = "start" /\ args.channel_axis.kind = "None"
       \/ pc = "gray"
    /\ n_axes' = n_axes_of(image)
    /\ image' = img_as_float(image)
    /\ shape' = image'.shape
    /\ B' = <<>>
    /\ slices' = slices_of(shape')
    /\ ax' = 0
    /\ pc' = "loop"
    /\ calls' = calls \cup {"img_as_float"}
    /\ UNCHANGED <<args, warned, regions, err, result, callNo, prev>>

\* the loop left at the first axis without edge energy
DegenerateAxis_break ==
    /\ warned' = Append(warned, ax)
    /\ B' = Append(B, NaN)
    /\ regions' = Append(regions, [m1 |-> Selected(im_sharp(image, ax), slices),
                                   m2done |-> FALSE, m2 |-> {}])
    /\ ax' = n_axes
    /\ pc' = "loop"

\* lines 98-105: no edge energy on this axis: warn, append NaN, go on
DegenerateAxis ==
    /\ warned' = Append(warned, ax)
    /\ B' = Append(B, NaN)
    /\ regions' = Append(regions, [m1 |-> Selected(im_sharp(image, ax), slices),
                                   m2done |-> FALSE, m2 |-> {}])
    /\ ax' = ax + 1
    /\ pc' = "loop"

\* lines 106-108: M2 and the ratio
RegularAxis ==
    /\ UNCHANGED warned
    /\ B' = Append(B, Num(Ratio(M1(image, slices, ax), M2(image, args.h_size, slices, ax))))
    /\ regions' = Append(regions, [m1 |-> Selected(im_sharp(image, ax), slices),
                                   m2done |-> TRUE,
                                   m2 |-> Selected(T(image, args.h_size, ax), slices)])
    /\ ax' = ax + 1
    /\ pc' = "loop"

\* lines 92-108: one iteration of `for ax in range(n_axes)`
AxisStep ==
    /\ pc = "loop"
    /\ ax < n_axes
    /\ IF M1(image, slices, ax) = Zero THEN DegenerateAxis ELSE RegularAxis
    /\ calls' = calls \cup {"uniform_filter1d", "sobel"}
    /\ UNCHANGED <<args, image, n_axes, shape, slices, err, result, callNo, prev>>

\* line 110, once the loop is exhausted
Return ==
    /\ pc = "loop"
    /\ ax >= n_axes
    /\ result' = apply_reduce(args.reduce_func, B)
    /\ pc' = "done"
    /\ UNCHANGED <<args, image, n_axes, shape, slices, B, ax, warned, regions, calls,
                   err, callNo, prev>>

\* The caller of the channel-axis equivalence: after a call with a channel
\* axis it reduces the same image itself, np.moveaxis(image, k, -1) then
\* rgb2gray, and calls blur_effect on the outcome with channel_axis=None.
CallPreReduced ==
    /\ pc \in {"done", "raised"}
    /\ callNo = 1
    /\ args.channel_axis.kind = "int"
    /\ AxisInRange(args.channel_axis.val, ndim(args.image))
    /\ LET moved == np_moveaxis(args.image, args.channel_axis.val, -1)
       IN  /\ moved.shape[Len(moved.shape)] = 3
           /\ args' = [args EXCEPT !.image = rgb2gray(moved), !.channel_axis = NoAxis]
    /\ image' = args'.image
    /\ prev' = [B |-> B, warned |-> warned, result |-> result, err |-> err, pc |-> pc,
                channel_axis |-> args.channel_axis]
    /\ callNo' = 2
    /\ n_axes' = 0
    /\ shape' = <<>>
    /\ slices' = <<>>
    /\ B' = <<>>
    /\ ax' = 0
    /\ warned' = <<>>
    /\ regions' = <<>>
    /\ calls' = {}
    /\ pc' = "start"
    /\ err' = "none"
    /\ result' = NoResult

Next ==
    \/ MoveAxis
    \/ Rgb2Gray
    \/ Prepare
    \/ AxisStep
    \/ Return
    \/ CallPreReduced

Spec == Init /\ [][Next]_vars

SpecEdge == InitEdge /\ [][Next]_vars

(***************************************************************************)
(* Properties.                                                             *)
(***************************************************************************)
\* the entries of a list that are NaN
NaNCount(list) == Cardinality({i \in 1..Len(list) : list[i].nan})

IsConstant(img) == \A p, q \in AllIndices(img.shape) : img.at[p] = img.at[q]

\* every row the same, 0.0 left of the middle column and 1.0 from it on
IsVerticalEdge(img) ==
    /\ ndim(img) = 2
    /\ img.shape[1] >= EdgeMin
    /\ img.shape[2] >= EdgeMin
    /\ \A p \in AllIndices(img.shape) :
          img.at[p] = IF p[2] >= img.shape[2] \div 2 THEN img.den ELSE 0

\* [2, axis_length - 1) on every axis
Interior(shp) ==
    {p \in AllIndices(shp) : \A k \in 1..Len(shp) : 2 <= p[k] /\ p[k] < shp[k] - 1}

\* C1: every entry appended to B is NaN or a ratio in [0, 1], and whenever
\* M1 # 0 for an axis, 0 <= M2 <= M1.
C1_Range ==
    \A i \in 1..Len(B) :
        LET m1 == M1(image, slices, i - 1)
            m2 == M2(image, args.h_size, slices, i - 1)
        IN  /\ B[i].nan \/ (RatLeq(Zero, B[i]) /\ RatLeq(B[i], One))
            /\ m1 # Zero => RatLeq(Zero, m2) /\ RatLeq(m2, m1)

\* an axis whose ratio lies strictly between 0 and 1
C1_Witness ==
    \E i \in 1..Len(B) : ~B[i].nan /\ RatLess(Zero, B[i]) /\ RatLess(B[i], One)

\* C2: with reduce_func None the call returns a list with one entry per axis
\* of the image after the channel reduction, the i-th the entry of axis i.
C2_AxisCount ==
    pc = "done" /\ args.reduce_func = "None" =>
        /\ result.kind = "list"
        /\ Len(result.list) = ndim(image)
        /\ Len(result.list) = IF callNo = 1 /\ args.channel_axis.kind = "int"
                              THEN ndim(args.image) - 1 ELSE ndim(args.image)
        /\ \A i \in 1..Len(result.list) :
              result.list[i] = AxisEntry(image, args.h_size, slices, i - 1)

\* a three-axis image returned as a list of three entries, one of them defined
C2_Witness ==
    /\ pc = "done"
    /\ args.reduce_func = "None"
    /\ ndim(image) = 3
    /\ Len(result.list) = 3
    /\ \E i \in 1..3 : ~result.list[i].nan

\* C3: a constant-valued image passed with channel_axis None gives NaN for
\* every axis and one warning per axis.
C3_Uniform ==
    pc = "done" /\ args.channel_axis.kind = "None" /\ IsConstant(args.image) =>
        /\ Len(B) = ndim(args.image)
        /\ \A i \in 1..Len(B) : B[i] = NaN /\ M1(image, slices, i - 1) = Zero
        /\ warned = [i \in 1..ndim(args.image) |-> i - 1]

\* a constant image that is not zero and whose cropped region is not empty
C3_Witness ==
    /\ pc = "done"
    /\ args.channel_axis.kind = "None"
    /\ callNo = 1
    /\ IsConstant(args.image)
    /\ \E p \in AllIndices(args.image.shape) : args.image.at[p] # 0
    /\ ndim(args.image) = 2
    /\ Interior(shape) # {}

\* C4: an axis without edge energy costs one warning and one NaN and the
\* loop goes on: a completed call has processed every axis, has warned once
\* per NaN entry, for exactly the axes that are NaN, and the other entries
\* are the ratio of their own axis.
C4_Continue ==
    /\ pc = "loop" => Len(B) = ax /\ Len(warned) = NaNCount(B)
    /\ pc = "done" =>
        /\ Len(B) = ndim(image)
        /\ Len(warned) = NaNCount(B)
        /\ \A i \in 1..Len(B) :
              /\ B[i].nan <=> \E j \in 1..Len(warned) : warned[j] = i - 1
              /\ ~B[i].nan =>
                    B[i] = Num(Ratio(M1(image, slices, i - 1),
                                     M2(image, args.h_size, slices, i - 1)))

\* a completed call whose first axis is NaN and whose second is defined
C4_Witness ==
    /\ pc = "done"
    /\ Len(B) >= 2
    /\ B[1].nan
    /\ ~B[2].nan

\* C5: a channel_axis that is no integer, or is out of range for the image
\* passed, never gets past np.moveaxis: the call raises TypeError or
\* AxisError with nothing converted, filtered, warned or returned.
C5_FailFast ==
    /\ callNo = 1 /\ args.channel_axis.kind = "float" =>
          pc \in {"start", "raised"} /\ (pc = "raised" => err = "TypeError")
    /\ callNo = 1 /\ args.channel_axis.kind = "int"
          /\ ~AxisInRange(args.channel_axis.val, ndim(args.image)) =>
          pc \in {"start", "raised"} /\ (pc = "raised" => err = "AxisError")
    /\ pc = "raised" /\ err \in {"TypeError", "AxisError"} =>
          /\ calls = {"np.moveaxis"}
          /\ image = args.image
          /\ B = <<>>
          /\ warned = <<>>
          /\ regions = <<>>
          /\ result = NoResult

\* channel_axis past the last axis of a three-axis image: AxisError
C5_Witness ==
    /\ pc = "raised"
    /\ err = "AxisError"
    /\ ndim(args.image) = 3
    /\ args.channel_axis.val >= 3

\* a completed call on the sharp vertical edge, the list returned
EdgeCall ==
    /\ pc = "done"
    /\ args.channel_axis.kind = "None"
    /\ args.reduce_func = "None"
    /\ IsVerticalEdge(args.image)

CloseToZero(x) == RatLess(x, [num |-> 1, den |-> 10])

\* C6 as stated: on the sharp vertical edge one axis (the one along the
\* edge) has a defined ratio close to 0 and the other has a higher ratio.
C6_Original ==
    EdgeCall =>
        \E along \in 1..2 :
            LET across == 3 - along
            IN  /\ ~result.list[along].nan
                /\ CloseToZero(result.list[along])
                /\ ~result.list[across].nan
                /\ RatLess(result.list[along], result.list[across])

\* C6 amended: on the sharp vertical edge with the default h_size, axis 0
\* (along which the edge runs) has no edge energy and gives NaN with one
\* warning, and axis 1 (across the edge) gives the defined ratio 2/11.
C6_EdgeAxes ==
    EdgeCall /\ args.h_size = DefaultHSize =>
        /\ Len(result.list) = 2
        /\ result.list[1] = NaN
        /\ M1(image, slices, 0) = Zero
        /\ warned = <<0>>
        /\ result.list[2] = Num(Rat(2, DefaultHSize))

\* the edge scenario completed, from a gray image passed as it is
C6_Witness == EdgeCall /\ args.h_size = DefaultHSize /\ callNo = 1

\* C7: with np.max the result is NaN as soon as one axis is NaN, and the
\* largest ratio of the axes otherwise.
C7_MaxAggregate ==
    pc = "done" /\ args.reduce_func = "np.max" =>
        /\ result.kind = "scalar"
        /\ (\E i \in 1..Len(B) : B[i].nan) => result.value = NaN
        /\ (\A i \in 1..Len(B) : ~B[i].nan) =>
              /\ ~result.value.nan
              /\ \E i \in 1..Len(B) : result.value = B[i]
              /\ \A i \in 1..Len(B) : RatLeq(B[i], result.value)

\* np.max over one NaN axis and one defined axis
C7_Witness ==
    /\ pc = "done"
    /\ args.reduce_func = "np.max"
    /\ \E i, j \in 1..Len(B) : B[i].nan /\ ~B[j].nan
    /\ result.value = NaN

\* C8: the call with channel_axis k and the call on the image reduced by the
\* caller (np.moveaxis(image, k, -1), then rgb2gray) with channel_axis None
\* end the same way: same entries, same warnings, same result.
C8_ChannelEquiv ==
    callNo = 2 /\ pc \in {"done", "raised"} =>
        /\ prev.pc = pc
        /\ prev.err = err
        /\ prev.B = B
        /\ prev.warned = warned
        /\ prev.result = result

\* both calls completed for a channel axis that was not the last one, with a
\* defined entry
C8_Witness ==
    /\ callNo = 2
    /\ pc = "done"
    /\ prev.pc = "done"
    /\ prev.channel_axis.val = 1
    /\ \E i \in 1..Len(B) : ~B[i].nan

C10_ShortAxis ==
    pc = "done" /\ (\E k \in 1..Len(shape) : shape[k] <= 3) =>
        /\ Interior(shape) = {}
        /\ Len(B) = Len(shape)
        /\ \A i \in 1..Len(B) : B[i] = NaN /\ M1(image, slices, i - 1) = Zero
        /\ Len(warned) = Len(shape)

\* such a call on an image that has edges along a longer axis
C10_Witness ==
    /\ pc = "done"
    /\ \E k \in 1..Len(shape) : shape[k] <= 3
    /\ \E k \in 1..Len(shape) :
          /\ shape[k] > 3
          /\ \E p \in AllIndices(shape) : im_sharp(image, k - 1).at[p] # 0

====
